---- MODULE Spec2Model ----
\* A model of PriorityMatrix (src/src/lib.rs): a global priority queue keyed
\* by (row, column) plus one priority queue per row and one per column.
\* A priority queue is modelled as a function from its keys to their weights;
\* peek/pop of the queue yield a key of maximal weight, ties unresolved.
EXTENDS Integers, Sequences, FiniteSets, TLC

\* ---------------------------------------------------------------- bounds
NumRows == 2
NumCols == 2
MaxWeight == 2
MaxInput == 2
MaxCells == 3

Rows == 1..NumRows
Cols == 1..NumCols
Weights == 1..MaxWeight

\* entries, rows, cols: the three fields of PriorityMatrix.
\* last: the most recent call, its arguments and what it returned.
\* drained: the entries returned by the calls of pop() made since the last
\* other mutating call, in order; drainStart: `entries` as that call left it.
VARIABLES entries, rows, cols, last, drained, drainStart

vars == <<entries, rows, cols, last, drained, drainStart>>

\* ------------------------------------------- the keyed priority queue
\* PriorityQueue::new / PriorityQueue::default: no keys.
PQNew == [k \in {} |-> 0]

\* PriorityQueue::push: insert the key or replace its weight.
PQPush(q, k, w) == [x \in (DOMAIN q) \cup {k} |-> IF x = k THEN w ELSE q[x]]

\* PriorityQueue::remove: drop the key when present.
PQRemove(q, k) == [x \in (DOMAIN q) \ {k} |-> q[x]]

\* The keys PriorityQueue::peek / PriorityQueue::pop may yield: those of
\* greatest weight (the order among equal weights is not specified).
PQPeek(q) == {k \in DOMAIN q : \A j \in DOMAIN q : q[j] <= q[k]}

\* Removal of a whole set of keys, one PriorityQueue::remove per key.
PQRemoveAll(q, ks) == [x \in (DOMAIN q) \ ks |-> q[x]]

\* HashMap::entry(k).or_insert_with(PriorityQueue::default).push(key, w)
MapPush(m, k, key, w) ==
    [x \in (DOMAIN m) \cup {k} |->
        IF x = k THEN PQPush(IF k \in DOMAIN m THEN m[k] ELSE PQNew, key, w)
        ELSE m[x]]

\* HashMap::get_mut(k).unwrap().remove(key), for k a key of the map
MapRemoveIn(m, k, key) == [m EXCEPT ![k] = PQRemove(m[k], key)]

\* HashMap::remove(k): the map without the key k
MapRemove(m, k) == [x \in (DOMAIN m) \ {k} |-> m[x]]

\* ------------------------------------------------ results of a call
\* Option<OwnedEntry> / Option<BorrowedEntry> / Option<W> / bool
None == [some |-> FALSE, row |-> 0, column |-> 0, weight |-> 0]
Some(r, c, w) == [some |-> TRUE, row |-> r, column |-> c, weight |-> w]

Call(op, r, c, w, ret, panic) ==
    [op |-> op, row |-> r, col |-> c, weight |-> w, ret |-> ret, panic |-> panic]

\* ------------------------------------------------------ construction
\* Collect keeping the first weight seen for a key instead of the last.
RECURSIVE CollectFirst(_, _)
CollectFirst(q, seq) ==
    IF seq = <<>> THEN q
    ELSE CollectFirst(IF <<seq[1][1], seq[1][2]>> \in DOMAIN q THEN q
                      ELSE PQPush(q, <<seq[1][1], seq[1][2]>>, seq[1][3]),
                      Tail(seq))

\* FromIterator: `entries` collects the triples in order (a later weight
\* replaces an earlier one for the same key); `rows` and `cols` are then
\* grouped from the finished `entries`.
RECURSIVE Collect(_, _)
Collect(q, seq) ==
    IF seq = <<>> THEN q
    ELSE Collect(PQPush(q, <<seq[1][1], seq[1][2]>>, seq[1][3]), Tail(seq))

GroupRows(q) ==
    [r \in {k[1] : k \in DOMAIN q} |->
        [c \in {k[2] : k \in {j \in DOMAIN q : j[1] = r}} |-> q[<<r, c>>]]]

GroupCols(q) ==
    [c \in {k[2] : k \in DOMAIN q} |->
        [r \in {k[1] : k \in {j \in DOMAIN q : j[2] = c}} |-> q[<<r, c>>]]]

Triples == Rows \X Cols \X Weights

RECURSIVE SeqsUpTo(_)
SeqsUpTo(n) ==
    IF n = 0 THEN {<<>>}
    ELSE LET S == SeqsUpTo(n - 1)
         IN S \cup {Append(s, t) : s \in {x \in S : Len(x) = n - 1}, t \in Triples}

from_iter(seq) ==
    /\ entries = Collect(PQNew, seq)
    /\ rows = GroupRows(Collect(PQNew, seq))
    /\ cols = GroupCols(Collect(PQNew, seq))

Init ==
    /\ \E seq \in SeqsUpTo(MaxInput) : from_iter(seq)
    /\ last = Call("from_iter", 0, 0, 0, None, FALSE)
    /\ drained = <<>>
    /\ drainStart = entries

\* ------------------------------------------------------- operations
\* A call that panicked unwinds: the matrix is not used again.
Running == ~last.panic

\* The cells some index holds a key for.  The workload is bounded: insert
\* takes a new cell only while fewer than MaxCells cells are held.
Held ==
    (DOMAIN entries)
        \cup {k \in Rows \X Cols : k[1] \in DOMAIN rows /\ k[2] \in DOMAIN rows[k[1]]}
        \cup {k \in Rows \X Cols : k[2] \in DOMAIN cols /\ k[1] \in DOMAIN cols[k[2]]}

\* insert with the column index left out of the update.
insert_without_cols(row, col, weight) ==
    /\ Running
    /\ <<row, col>> \in Held \/ Cardinality(Held) < MaxCells
    /\ entries' = PQPush(entries, <<row, col>>, weight)
    /\ rows' = MapPush(MapPush(rows, row, col, weight), row, col, weight)
    /\ cols' = cols
    /\ last' = Call("insert", row, col, weight,
                    IF <<row, col>> \in DOMAIN entries
                    THEN Some(row, col, entries[<<row, col>>]) ELSE None,
                    FALSE)
    /\ drained' = <<>>
    /\ drainStart' = entries'

insert(row, col, weight) ==
    /\ Running
    /\ <<row, col>> \in Held \/ Cardinality(Held) < MaxCells
    /\ entries' = PQPush(entries, <<row, col>>, weight)
    /\ rows' = MapPush(rows, row, col, weight)
    /\ cols' = MapPush(cols, col, row, weight)
    /\ last' = Call("insert", row, col, weight,
                    IF <<row, col>> \in DOMAIN entries
                    THEN Some(row, col, entries[<<row, col>>]) ELSE None,
                    FALSE)
    /\ drained' = <<>>
    /\ drainStart' = entries'

peek ==
    /\ Running
    /\ IF DOMAIN entries = {}
       THEN last' = Call("peek", 0, 0, 0, None, FALSE)
       ELSE \E key \in PQPeek(entries) :
                last' = Call("peek", 0, 0, 0,
                             Some(key[1], key[2], entries[key]), FALSE)
    /\ UNCHANGED <<entries, rows, cols, drained, drainStart>>

peek_from_row(row) ==
    /\ Running
    /\ IF row \notin DOMAIN rows
       THEN last' = Call("peek_from_row", row, 0, 0, None, FALSE)
       ELSE IF DOMAIN rows[row] = {}
       THEN \* rows.get(row)?.peek().unwrap() on an empty queue
            last' = Call("peek_from_row", row, 0, 0, None, TRUE)
       ELSE \E col \in PQPeek(rows[row]) :
                IF <<row, col>> \notin DOMAIN entries
                THEN \* entries.get(&key).unwrap() on a missing key
                     last' = Call("peek_from_row", row, 0, 0, None, TRUE)
                ELSE last' = Call("peek_from_row", row, 0, 0,
                                  Some(row, col, entries[<<row, col>>]), FALSE)
    /\ UNCHANGED <<entries, rows, cols, drained, drainStart>>

peek_from_column(col) ==
    /\ Running
    /\ IF col \notin DOMAIN cols
       THEN last' = Call("peek_from_column", 0, col, 0, None, FALSE)
       ELSE IF DOMAIN cols[col] = {}
       THEN last' = Call("peek_from_column", 0, col, 0, None, TRUE)
       ELSE \E row \in PQPeek(cols[col]) :
                IF <<row, col>> \notin DOMAIN entries
                THEN last' = Call("peek_from_column", 0, col, 0, None, TRUE)
                ELSE last' = Call("peek_from_column", 0, col, 0,
                                  Some(row, col, entries[<<row, col>>]), FALSE)
    /\ UNCHANGED <<entries, rows, cols, drained, drainStart>>

\* pop taking an arbitrary entry of the global index instead of a greatest.
pop_any ==
    /\ Running
    /\ IF DOMAIN entries = {}
       THEN /\ last' = Call("pop", 0, 0, 0, None, FALSE)
            /\ UNCHANGED <<entries, rows, cols, drained, drainStart>>
       ELSE \E key \in DOMAIN entries :
                /\ entries' = PQRemove(entries, key)
                /\ cols' = cols
                /\ drainStart' = drainStart
                /\ rows' = IF key[1] \in DOMAIN rows
                           THEN MapRemoveIn(rows, key[1], key[2]) ELSE rows
                /\ last' = Call("pop", 0, 0, 0,
                                Some(key[1], key[2], entries[key]),
                                key[1] \notin DOMAIN rows)
                /\ drained' = Append(drained, <<key[1], key[2], entries[key]>>)

\* pop cleaning the queue of the column twice and the queue of the row never.
pop_cleaning_cols ==
    /\ Running
    /\ IF DOMAIN entries = {}
       THEN /\ last' = Call("pop", 0, 0, 0, None, FALSE)
            /\ UNCHANGED <<entries, rows, cols, drained, drainStart>>
       ELSE \E key \in PQPeek(entries) :
                /\ entries' = PQRemove(entries, key)
                /\ rows' = rows
                /\ drainStart' = drainStart
                /\ IF key[2] \notin DOMAIN cols
                   THEN /\ cols' = cols
                        /\ last' = Call("pop", 0, 0, 0, None, TRUE)
                        /\ drained' = drained
                   ELSE /\ cols' = MapRemoveIn(MapRemoveIn(cols, key[2], key[1]),
                                               key[2], key[1])
                        /\ last' = Call("pop", 0, 0, 0,
                                        Some(key[1], key[2], entries[key]), FALSE)
                        /\ drained' = Append(drained,
                                             <<key[1], key[2], entries[key]>>)

pop ==
    /\ Running
    /\ IF DOMAIN entries = {}
       THEN /\ last' = Call("pop", 0, 0, 0, None, FALSE)
            /\ UNCHANGED <<entries, rows, cols, drained, drainStart>>
       ELSE \E key \in PQPeek(entries) :
                /\ entries' = PQRemove(entries, key)
                /\ cols' = cols
                /\ drainStart' = drainStart
                /\ IF key[1] \notin DOMAIN rows
                   THEN \* self.rows.get_mut(&row).unwrap()
                        /\ rows' = rows
                        /\ last' = Call("pop", 0, 0, 0, None, TRUE)
                        /\ drained' = drained
                   ELSE \* the row queue is cleaned twice, the column queue never
                        /\ rows' = MapRemoveIn(MapRemoveIn(rows, key[1], key[2]),
                                               key[1], key[2])
                        /\ last' = Call("pop", 0, 0, 0,
                                        Some(key[1], key[2], entries[key]), FALSE)
                        /\ drained' = Append(drained,
                                             <<key[1], key[2], entries[key]>>)

\* pop_from_row taking every entry of the row out of the global index.
pop_from_row_clearing_row(row) ==
    /\ Running
    /\ drained' = <<>>
    /\ IF row \notin DOMAIN rows
       THEN /\ last' = Call("pop_from_row", row, 0, 0, None, FALSE)
            /\ UNCHANGED <<entries, rows, cols>>
       ELSE IF DOMAIN rows[row] = {}
       THEN /\ last' = Call("pop_from_row", row, 0, 0, None, TRUE)
            /\ UNCHANGED <<entries, rows, cols>>
       ELSE \E col \in PQPeek(rows[row]) :
                /\ rows' = MapRemoveIn(rows, row, col)
                /\ entries' = PQRemoveAll(entries,
                                          {<<row, c>> : c \in DOMAIN rows[row]})
                /\ IF col \notin DOMAIN cols
                   THEN /\ cols' = cols
                        /\ last' = Call("pop_from_row", row, 0, 0, None, TRUE)
                   ELSE /\ cols' = MapRemoveIn(cols, col, row)
                        /\ last' = Call("pop_from_row", row, 0, 0,
                                        Some(row, col, rows[row][col]), FALSE)
    /\ drainStart' = entries'

\* pop_from_row leaving the popped key in the global index.
pop_from_row_keep_entries(row) ==
    /\ Running
    /\ drained' = <<>>
    /\ IF row \notin DOMAIN rows
       THEN /\ last' = Call("pop_from_row", row, 0, 0, None, FALSE)
            /\ UNCHANGED <<entries, rows, cols>>
       ELSE IF DOMAIN rows[row] = {}
       THEN /\ last' = Call("pop_from_row", row, 0, 0, None, TRUE)
            /\ UNCHANGED <<entries, rows, cols>>
       ELSE \E col \in PQPeek(rows[row]) :
                /\ rows' = MapRemoveIn(rows, row, col)
                /\ entries' = entries
                /\ IF col \notin DOMAIN cols
                   THEN /\ cols' = cols
                        /\ last' = Call("pop_from_row", row, 0, 0, None, TRUE)
                   ELSE /\ cols' = MapRemoveIn(cols, col, row)
                        /\ last' = Call("pop_from_row", row, 0, 0,
                                        Some(row, col, rows[row][col]), FALSE)
    /\ drainStart' = entries'

pop_from_row(row) ==
    /\ Running
    /\ drained' = <<>>
    /\ IF row \notin DOMAIN rows
       THEN /\ last' = Call("pop_from_row", row, 0, 0, None, FALSE)
            /\ UNCHANGED <<entries, rows, cols>>
       ELSE IF DOMAIN rows[row] = {}
       THEN \* self.rows.get_mut(row)?.pop().unwrap() on an empty queue
            /\ last' = Call("pop_from_row", row, 0, 0, None, TRUE)
            /\ UNCHANGED <<entries, rows, cols>>
       ELSE \E col \in PQPeek(rows[row]) :
                /\ rows' = MapRemoveIn(rows, row, col)
                /\ entries' = PQRemove(entries, <<row, col>>)
                /\ IF col \notin DOMAIN cols
                   THEN \* self.cols.get_mut(&col).unwrap()
                        /\ cols' = cols
                        /\ last' = Call("pop_from_row", row, 0, 0, None, TRUE)
                   ELSE /\ cols' = MapRemoveIn(cols, col, row)
                        /\ last' = Call("pop_from_row", row, 0, 0,
                                        Some(row, col, rows[row][col]), FALSE)
    /\ drainStart' = entries'

\* pop_from_column leaving the popped key in the queue of its row.
pop_from_column_keep_rows(col) ==
    /\ Running
    /\ drained' = <<>>
    /\ IF col \notin DOMAIN cols
       THEN /\ last' = Call("pop_from_column", 0, col, 0, None, FALSE)
            /\ UNCHANGED <<entries, rows, cols>>
       ELSE IF DOMAIN cols[col] = {}
       THEN /\ last' = Call("pop_from_column", 0, col, 0, None, TRUE)
            /\ UNCHANGED <<entries, rows, cols>>
       ELSE \E row \in PQPeek(cols[col]) :
                /\ cols' = MapRemoveIn(cols, col, row)
                /\ entries' = PQRemove(entries, <<row, col>>)
                /\ rows' = rows
                /\ last' = Call("pop_from_column", 0, col, 0,
                                Some(row, col, cols[col][row]), FALSE)
    /\ drainStart' = entries'

pop_from_column(col) ==
    /\ Running
    /\ drained' = <<>>
    /\ IF col \notin DOMAIN cols
       THEN /\ last' = Call("pop_from_column", 0, col, 0, None, FALSE)
            /\ UNCHANGED <<entries, rows, cols>>
       ELSE IF DOMAIN cols[col] = {}
       THEN /\ last' = Call("pop_from_column", 0, col, 0, None, TRUE)
            /\ UNCHANGED <<entries, rows, cols>>
       ELSE \E row \in PQPeek(cols[col]) :
                /\ cols' = MapRemoveIn(cols, col, row)
                /\ entries' = PQRemove(entries, <<row, col>>)
                /\ IF row \notin DOMAIN rows
                   THEN \* self.rows.get_mut(&row).unwrap()
                        /\ rows' = rows
                        /\ last' = Call("pop_from_column", 0, col, 0, None, TRUE)
                   ELSE /\ rows' = MapRemoveIn(rows, row, col)
                        /\ last' = Call("pop_from_column", 0, col, 0,
                                        Some(row, col, cols[col][row]), FALSE)
    /\ drainStart' = entries'

\* remove taking the key out of the global index only.
remove_entries_only(row, col) ==
    /\ Running
    /\ drained' = <<>>
    /\ UNCHANGED <<rows, cols>>
    /\ entries' = PQRemove(entries, <<row, col>>)
    /\ last' = Call("remove", row, col, 0,
                    IF <<row, col>> \in DOMAIN entries
                    THEN Some(row, col, entries[<<row, col>>]) ELSE None,
                    FALSE)
    /\ drainStart' = entries'

remove(row, col) ==
    /\ Running
    /\ drained' = <<>>
    /\ IF <<row, col>> \notin DOMAIN entries
       THEN /\ last' = Call("remove", row, col, 0, None, FALSE)
            /\ UNCHANGED <<entries, rows, cols>>
       ELSE /\ entries' = PQRemove(entries, <<row, col>>)
            /\ IF row \notin DOMAIN rows
               THEN \* self.rows.get_mut(row).unwrap()
                    /\ UNCHANGED <<rows, cols>>
                    /\ last' = Call("remove", row, col, 0, None, TRUE)
               ELSE /\ rows' = MapRemoveIn(rows, row, col)
                    /\ IF col \notin DOMAIN cols
                       THEN \* self.cols.get_mut(col).unwrap()
                            /\ cols' = cols
                            /\ last' = Call("remove", row, col, 0, None, TRUE)
                       ELSE /\ cols' = MapRemoveIn(cols, col, row)
                            /\ last' = Call("remove", row, col, 0,
                                            Some(row, col, entries[<<row, col>>]),
                                            FALSE)
    /\ drainStart' = entries'

\* The keys (row, curr_col) of the queue taken out of `rows`, none when
\* the map has no such row.
RowKeys(row) ==
    IF row \in DOMAIN rows THEN {<<row, c>> : c \in DOMAIN rows[row]} ELSE {}

\* The keys (curr_row, col) of the queue taken out of `cols`.
ColKeys(col) ==
    IF col \in DOMAIN cols THEN {<<r, col>> : r \in DOMAIN cols[col]} ELSE {}

remove_row(row) ==
    /\ Running
    /\ drained' = <<>>
    /\ rows' = MapRemove(rows, row)
    /\ cols' = [c \in DOMAIN cols |->
                   IF <<row, c>> \in RowKeys(row)
                   THEN PQRemove(cols[c], row) ELSE cols[c]]
    /\ entries' = PQRemoveAll(entries, RowKeys(row))
    /\ last' = Call("remove_row", row, 0, 0, None, FALSE)
    /\ drainStart' = entries'

remove_column(col) ==
    /\ Running
    /\ drained' = <<>>
    /\ cols' = MapRemove(cols, col)
    /\ rows' = [r \in DOMAIN rows |->
                   IF <<r, col>> \in ColKeys(col)
                   THEN PQRemove(rows[r], col) ELSE rows[r]]
    /\ entries' = PQRemoveAll(entries, ColKeys(col))
    /\ last' = Call("remove_column", 0, col, 0, None, FALSE)
    /\ drainStart' = entries'

\* remove_row_and_column sweeping only the keys of the row out of `entries`.
remove_row_and_column_row_keys_only(row, col) ==
    /\ Running
    /\ drained' = <<>>
    /\ rows' = MapRemove(rows, row)
    /\ cols' = MapRemove(cols, col)
    /\ entries' = PQRemoveAll(entries, RowKeys(row))
    /\ last' = Call("remove_row_and_column", row, col, 0, None, FALSE)
    /\ drainStart' = entries'

remove_row_and_column(row, col) ==
    /\ Running
    /\ drained' = <<>>
    /\ rows' = MapRemove(rows, row)
    /\ cols' = MapRemove(cols, col)
    /\ entries' = PQRemoveAll(entries, RowKeys(row) \cup ColKeys(col))
    /\ last' = Call("remove_row_and_column", row, col, 0, None, FALSE)
    /\ drainStart' = entries'

Next ==
    \/ \E row \in Rows, col \in Cols, weight \in Weights : insert(row, col, weight)
    \/ peek
    \/ \E row \in Rows : peek_from_row(row)
    \/ \E col \in Cols : peek_from_column(col)
    \/ pop
    \/ \E row \in Rows : pop_from_row(row)
    \/ \E col \in Cols : pop_from_column(col)
    \/ \E row \in Rows, col \in Cols : remove(row, col)
    \/ \E row \in Rows : remove_row(row)
    \/ \E col \in Cols : remove_column(col)
    \/ \E row \in Rows, col \in Cols : remove_row_and_column(row, col)

Spec == Init /\ [][Next]_vars

\* The operations other than pop and remove_row_and_column.
NextWithoutPop ==
    \/ \E row \in Rows, col \in Cols, weight \in Weights : insert(row, col, weight)
    \/ peek
    \/ \E row \in Rows : peek_from_row(row)
    \/ \E col \in Cols : peek_from_column(col)
    \/ \E row \in Rows : pop_from_row(row)
    \/ \E col \in Cols : pop_from_column(col)
    \/ \E row \in Rows, col \in Cols : remove(row, col)
    \/ \E row \in Rows : remove_row(row)
    \/ \E col \in Cols : remove_column(col)

SpecWithoutPop == Init /\ [][NextWithoutPop]_vars

\* The operations other than remove_row_and_column.
NextWithoutSweep ==
    \/ NextWithoutPop
    \/ pop

SpecWithoutSweep == Init /\ [][NextWithoutSweep]_vars

\* ------------------------------------------------------- properties
Live(r, c) == <<r, c>> \in DOMAIN entries
InRow(r, c) == r \in DOMAIN rows /\ c \in DOMAIN rows[r]
InCol(r, c) == c \in DOMAIN cols /\ r \in DOMAIN cols[c]

LiveInRow(r) == {c \in Cols : Live(r, c)}
LiveInCol(c) == {r \in Rows : Live(r, c)}

Returned == last.ret.some /\ ~last.panic
RetKey == <<last.ret.row, last.ret.column>>

\* C1: in every reachable state the three indices agree: (r, c) is in
\* `entries` with weight w iff c is in rows[r] with weight w iff r is in
\* cols[c] with weight w.
C1_ThreeWayInvariant ==
    \A r \in Rows, c \in Cols, w \in Weights :
        /\ (Live(r, c) /\ entries[<<r, c>>] = w) <=> (InRow(r, c) /\ rows[r][c] = w)
        /\ (Live(r, c) /\ entries[<<r, c>>] = w) <=> (InCol(r, c) /\ cols[c][r] = w)

\* C2: whenever pop, pop_from_row or pop_from_column returns an entry, the
\* entry's key is afterwards absent from `entries`, from rows[row] and from
\* cols[col].
C2_PopRemovesEverywhere ==
    (last.op \in {"pop", "pop_from_row", "pop_from_column"} /\ Returned)
        => /\ ~Live(last.ret.row, last.ret.column)
           /\ ~InRow(last.ret.row, last.ret.column)
           /\ ~InCol(last.ret.row, last.ret.column)

\* C3: no call aborts: every peek, pop and remove variant completes and
\* reports absence as an empty result.
C3_NoCallPanics == ~last.panic

\* C4: peek_from_row(r) returns a live entry of row r of maximal weight
\* among the live entries of row r, and returns empty exactly when row r has
\* no live entry; peek_from_column(c) likewise for column c.
C4_ScopedPeek ==
    /\ last.op = "peek_from_row" =>
          /\ ~last.panic
          /\ last.ret.some <=> LiveInRow(last.row) # {}
          /\ last.ret.some =>
                /\ last.ret.row = last.row
                /\ Live(last.row, last.ret.column)
                /\ entries[RetKey] = last.ret.weight
                /\ \A c \in LiveInRow(last.row) :
                       entries[<<last.row, c>>] <= last.ret.weight
    /\ last.op = "peek_from_column" =>
          /\ ~last.panic
          /\ last.ret.some <=> LiveInCol(last.col) # {}
          /\ last.ret.some =>
                /\ last.ret.column = last.col
                /\ Live(last.ret.row, last.col)
                /\ entries[RetKey] = last.ret.weight
                /\ \A r \in LiveInCol(last.col) :
                       entries[<<r, last.col>>] <= last.ret.weight

\* The secondary index m (rows or cols) after the call differs from the one
\* before only in that queue k no longer holds key.
OnlyDropped(mBefore, mAfter, k, key) ==
    /\ DOMAIN mAfter = DOMAIN mBefore
    /\ \A x \in DOMAIN mBefore :
          mAfter[x] = IF x = k THEN PQRemove(mBefore[x], key) ELSE mBefore[x]

\* C5: pop_from_row(r), called with a live entry in row r, returns an entry
\* (r, c, w) that was live with weight w before the call and is maximal in
\* row r, and removes exactly that key from `entries` and from cols[c];
\* pop_from_column(c) likewise with `entries` and rows[row].
C5_ScopedPopStep ==
    /\ (last'.op = "pop_from_row" /\ LiveInRow(last'.row) # {}) =>
          /\ ~last'.panic
          /\ last'.ret.some
          /\ last'.ret.row = last'.row
          /\ Live(last'.row, last'.ret.column)
          /\ entries[<<last'.row, last'.ret.column>>] = last'.ret.weight
          /\ \A c \in LiveInRow(last'.row) :
                 entries[<<last'.row, c>>] <= last'.ret.weight
          /\ entries' = PQRemove(entries, <<last'.row, last'.ret.column>>)
          /\ OnlyDropped(cols, cols', last'.ret.column, last'.row)
    /\ (last'.op = "pop_from_column" /\ LiveInCol(last'.col) # {}) =>
          /\ ~last'.panic
          /\ last'.ret.some
          /\ last'.ret.column = last'.col
          /\ Live(last'.ret.row, last'.col)
          /\ entries[<<last'.ret.row, last'.col>>] = last'.ret.weight
          /\ \A r \in LiveInCol(last'.col) :
                 entries[<<r, last'.col>>] <= last'.ret.weight
          /\ entries' = PQRemove(entries, <<last'.ret.row, last'.col>>)
          /\ OnlyDropped(rows, rows', last'.ret.row, last'.col)

C5_ScopedPop == [][C5_ScopedPopStep]_vars

\* The call recorded in last' found nothing to remove in the state before it.
Miss ==
    \/ last'.op = "remove" /\ ~Live(last'.row, last'.col)
    \/ last'.op = "pop_from_row" /\ LiveInRow(last'.row) = {}
    \/ last'.op = "pop_from_column" /\ LiveInCol(last'.col) = {}
    \/ last'.op = "pop" /\ DOMAIN entries = {}

\* C6: remove of a key that is not live, pop_from_row of a row without live
\* entries, pop_from_column of a column without live entries and pop of an
\* empty matrix report absence and leave `entries`, `rows` and `cols`
\* unchanged.
C6_IdempotentMiss ==
    [][Miss => (/\ ~last'.panic
                /\ ~last'.ret.some
                /\ UNCHANGED <<entries, rows, cols>>)]_vars

\* The same membership tests in the state after a step.
LiveAfter(r, c) == <<r, c>> \in DOMAIN entries'
InRowAfter(r, c) == r \in DOMAIN rows' /\ c \in DOMAIN rows'[r]
InColAfter(r, c) == c \in DOMAIN cols' /\ r \in DOMAIN cols'[c]

\* The cell (r, c) has the same membership and weight in all three indices
\* before and after the step.
CellKept(r, c) ==
    /\ LiveAfter(r, c) = Live(r, c)
    /\ Live(r, c) => entries'[<<r, c>>] = entries[<<r, c>>]
    /\ InRowAfter(r, c) = InRow(r, c)
    /\ InRow(r, c) => rows'[r][c] = rows[r][c]
    /\ InColAfter(r, c) = InCol(r, c)
    /\ InCol(r, c) => cols'[c][r] = cols[c][r]

OthersKept(key) ==
    \A r \in Rows, c \in Cols : <<r, c>> # key => CellKept(r, c)

C7_UpsertStep ==
    last'.op = "insert" =>
        LET key == <<last'.row, last'.col>> IN
        /\ ~last'.panic
        /\ IF key \in DOMAIN entries
           THEN /\ last'.ret.some
                /\ last'.ret.weight = entries[key]
                /\ Cardinality(DOMAIN entries') = Cardinality(DOMAIN entries)
           ELSE /\ ~last'.ret.some
                /\ Cardinality(DOMAIN entries') = Cardinality(DOMAIN entries) + 1
        /\ key \in DOMAIN entries' /\ entries'[key] = last'.weight
        /\ InRowAfter(key[1], key[2]) /\ rows'[key[1]][key[2]] = last'.weight
        /\ InColAfter(key[1], key[2]) /\ cols'[key[2]][key[1]] = last'.weight
        /\ OthersKept(key)

\* C7: insert(r, c, w) of a live key returns its previous weight and keeps
\* the size of `entries`; insert of a key that is not live returns nothing
\* and grows `entries` by one; in both cases all three indices then hold
\* weight w for the key and every other key is as before in all three.
C7_Upsert == [][C7_UpsertStep]_vars

\* An upsert replaced the weight of a live key while other entries existed.
C7_Witness ==
    /\ last.op = "insert"
    /\ Returned
    /\ last.ret.weight # last.weight
    /\ Cardinality(DOMAIN entries) >= 2

DrainKey(i) == <<drained[i][1], drained[i][2]>>

\* C8: peek() returns a live entry of greatest weight, or empty exactly when
\* `entries` is empty; pop() removes and returns such an entry, so that
\* consecutive calls of pop() yield the entries of the matrix once each in
\* non-increasing weight order and then empty.
C8_GlobalOrder ==
    /\ last.op = "peek" =>
          /\ ~last.panic
          /\ last.ret.some <=> DOMAIN entries # {}
          /\ last.ret.some =>
                /\ RetKey \in DOMAIN entries
                /\ entries[RetKey] = last.ret.weight
                /\ \A k \in DOMAIN entries : entries[k] <= last.ret.weight
    /\ last.op = "pop" =>
          /\ ~last.panic
          /\ ~last.ret.some => DOMAIN entries = {}
          /\ last.ret.some =>
                /\ drained # <<>>
                /\ drained[Len(drained)] =
                       <<last.ret.row, last.ret.column, last.ret.weight>>
    /\ \A i \in 1..Len(drained) :
          /\ DrainKey(i) \in DOMAIN drainStart
          /\ drainStart[DrainKey(i)] = drained[i][3]
          /\ \A j \in 1..Len(drained) :
                i < j => /\ DrainKey(i) # DrainKey(j)
                         /\ drained[i][3] >= drained[j][3]
          /\ \A k \in DOMAIN entries : entries[k] <= drained[i][3]
    /\ entries = PQRemoveAll(drainStart, {DrainKey(i) : i \in 1..Len(drained)})

\* Three entries of two different weights were popped in a row and the next
\* pop() returned empty.
C8_Witness ==
    /\ last.op = "pop"
    /\ ~last.ret.some
    /\ ~last.panic
    /\ Len(drained) = 3
    /\ Cardinality(DOMAIN drainStart) = 3
    /\ drained[1][3] > drained[3][3]

\* C9: after remove_row_and_column(r, c) no entry of row r or of column c
\* remains in any of the three indices, and every entry of another row and
\* another column is unchanged in all three.
C9_RemoveUnion ==
    [][last'.op = "remove_row_and_column" =>
          \A r \in Rows, c \in Cols :
              IF r = last'.row \/ c = last'.col
              THEN ~LiveAfter(r, c) /\ ~InRowAfter(r, c) /\ ~InColAfter(r, c)
              ELSE CellKept(r, c)]_vars

\* C10: after remove_row(r) no key (r, c) is in `entries`, r is not a key of
\* `rows` and r is in no cols[c]; every entry of another row is unchanged in
\* all three indices; a call for a row without entries changes nothing.
\* remove_column(c) likewise with rows and cols exchanged.
C10_RemoveLine ==
    [][/\ last'.op = "remove_row" =>
            /\ last'.row \notin DOMAIN rows'
            /\ \A c \in Cols :
                   ~LiveAfter(last'.row, c) /\ ~InColAfter(last'.row, c)
            /\ \A r \in Rows \ {last'.row} : \A c \in Cols : CellKept(r, c)
            /\ LiveInRow(last'.row) = {} => UNCHANGED <<entries, rows, cols>>
       /\ last'.op = "remove_column" =>
            /\ last'.col \notin DOMAIN cols'
            /\ \A r \in Rows :
                   ~LiveAfter(r, last'.col) /\ ~InRowAfter(r, last'.col)
            /\ \A c \in Cols \ {last'.col} : \A r \in Rows : CellKept(r, c)
            /\ LiveInCol(last'.col) = {} => UNCHANGED <<entries, rows, cols>>]_vars

C11_RemoveStep ==
    last'.op = "remove" =>
        LET key == <<last'.row, last'.col>> IN
        /\ ~last'.panic
        /\ last'.ret.some <=> key \in DOMAIN entries
        /\ key \in DOMAIN entries =>
              /\ ~LiveAfter(key[1], key[2])
              /\ ~InRowAfter(key[1], key[2])
              /\ ~InColAfter(key[1], key[2])
              /\ Cardinality(DOMAIN entries') = Cardinality(DOMAIN entries) - 1
              /\ OthersKept(key)

\* C11: remove(r, c) returns true iff (r, c) was live before the call; on
\* true the key leaves `entries`, rows[r] and cols[c], `entries` shrinks by
\* one and every other key is as before in all three indices.
C11_Remove == [][C11_RemoveStep]_vars

\* A live key was removed while another entry stayed.
C11_Witness ==
    /\ last.op = "remove"
    /\ Returned
    /\ ~Live(last.row, last.col)
    /\ DOMAIN entries # {}

\* The three fields after insert(row, col, weight) on a matrix with fields m.
InsertInto(m, row, col, weight) ==
    [entries |-> PQPush(m.entries, <<row, col>>, weight),
     rows |-> MapPush(m.rows, row, col, weight),
     cols |-> MapPush(m.cols, col, row, weight)]

\* An empty matrix after insert was called for each triple of seq in order.
RECURSIVE InsertAll(_, _)
InsertAll(m, seq) ==
    IF seq = <<>> THEN m
    ELSE InsertAll(InsertInto(m, seq[1][1], seq[1][2], seq[1][3]), Tail(seq))

Default == [entries |-> PQNew, rows |-> PQNew, cols |-> PQNew]

\* The input sequences from_iter may have built the current `entries` from.
BuiltFrom == {seq \in SeqsUpTo(MaxInput) : Collect(PQNew, seq) = entries}

\* C12: the matrix built by from_iter from a sequence of triples has the
\* same three indices as an empty matrix on which insert was called for each
\* triple in order; a duplicated key carries the weight of its last
\* occurrence in all three.
C12_BulkEqualsInserts ==
    last.op = "from_iter" =>
        \A seq \in BuiltFrom :
            /\ [entries |-> entries, rows |-> rows, cols |-> cols]
                   = InsertAll(Default, seq)
            /\ \A i \in 1..Len(seq) :
                  (\A j \in (i + 1)..Len(seq) :
                       <<seq[j][1], seq[j][2]>> # <<seq[i][1], seq[i][2]>>)
                  => /\ entries[<<seq[i][1], seq[i][2]>>] = seq[i][3]
                     /\ rows[seq[i][1]][seq[i][2]] = seq[i][3]
                     /\ cols[seq[i][2]][seq[i][1]] = seq[i][3]

\* A matrix built from a sequence that names one key twice with two weights.
C12_Witness ==
    /\ last.op = "from_iter"
    /\ \E seq \in BuiltFrom :
          /\ Len(seq) = 2
          /\ <<seq[1][1], seq[1][2]>> = <<seq[2][1], seq[2][2]>>
          /\ seq[1][3] # seq[2][3]

\* C13: a row is a key of `rows` iff some live entry has that row, and a
\* column is a key of `cols` iff some live entry has that column: no empty
\* queue stays in either map.
C13_NoStaleMapKeys ==
    /\ \A r \in Rows : r \in DOMAIN rows <=> LiveInRow(r) # {}
    /\ \A c \in Cols : c \in DOMAIN cols <=> LiveInCol(c) # {}

\* A key some secondary index holds although the global index does not.
Stale(r, c) == ~Live(r, c) /\ (InRow(r, c) \/ InCol(r, c))

\* C14: every key of `entries` is, with the same weight, in the queue of its
\* row in `rows` and in the queue of its column in `cols`.
C14_GlobalWithinSecondary ==
    \A k \in DOMAIN entries :
        /\ k[1] \in DOMAIN rows
        /\ k[2] \in DOMAIN rows[k[1]]
        /\ rows[k[1]][k[2]] = entries[k]
        /\ k[2] \in DOMAIN cols
        /\ k[1] \in DOMAIN cols[k[2]]
        /\ cols[k[2]][k[1]] = entries[k]

\* Live entries next to a stale key, after pop or remove_row_and_column.
C14_Witness ==
    /\ last.op \in {"pop", "remove_row_and_column"}
    /\ ~last.panic
    /\ Cardinality(DOMAIN entries) >= 2
    /\ \E r \in Rows, c \in Cols : Stale(r, c)

\* C15: in the states reached with insert, remove, pop_from_row,
\* pop_from_column, remove_row and remove_column only, membership and weight
\* of every key agree in the three indices: no secondary index holds a key
\* that the global index lacks.
C15_AgreementWithoutPop ==
    /\ \A r \in Rows, c \in Cols : ~Stale(r, c)
    /\ \A r \in Rows, c \in Cols :
          Live(r, c) => /\ InRow(r, c) /\ rows[r][c] = entries[<<r, c>>]
                        /\ InCol(r, c) /\ cols[c][r] = entries[<<r, c>>]

\* A scoped pop took one entry and left others behind.
C15_Witness ==
    /\ last.op = "pop_from_column"
    /\ Returned
    /\ LiveInCol(last.col) # {}
    /\ \E r \in Rows : r \in DOMAIN rows /\ DOMAIN rows[r] = {}

C16_SweepStep ==
    last'.op = "remove_row_and_column" =>
        /\ ~last'.panic
        /\ DOMAIN entries' =
               {k \in DOMAIN entries : k[1] # last'.row /\ k[2] # last'.col}
        /\ \A k \in DOMAIN entries' : entries'[k] = entries[k]
        /\ last'.row \notin DOMAIN rows'
        /\ last'.col \notin DOMAIN cols'
        /\ \A r \in Rows \ {last'.row} :
               /\ r \in DOMAIN rows' <=> r \in DOMAIN rows
               /\ r \in DOMAIN rows => rows'[r] = rows[r]
        /\ \A c \in Cols \ {last'.col} :
               /\ c \in DOMAIN cols' <=> c \in DOMAIN cols
               /\ c \in DOMAIN cols => cols'[c] = cols[c]

\* C16: after remove_row_and_column(r, c) `entries` holds exactly its
\* former entries of other rows and other columns, weights unchanged; r is
\* no key of `rows`, c no key of `cols`; the queues of the other rows and
\* the other columns are untouched.
C16_Sweep == [][C16_SweepStep]_vars

\* A sweep left an entry behind, and a key of the swept column stale in the
\* untouched queue of another row.
C16_Witness ==
    /\ last.op = "remove_row_and_column"
    /\ DOMAIN entries # {}
    /\ \E r \in Rows \ {last.row} : Stale(r, last.col) /\ InRow(r, last.col)

\* C17: in the states reached without remove_row_and_column (pop allowed)
\* the row index mirrors the global index: (r, c) is in `entries` with
\* weight w iff c is in rows[r] with weight w; stale keys are in `cols` only.
C17_RowIndexExact ==
    \A r \in Rows, c \in Cols :
        /\ InRow(r, c) <=> Live(r, c)
        /\ InRow(r, c) => rows[r][c] = entries[<<r, c>>]

\* pop left a key stale in the column index while entries remain.
C17_Witness ==
    /\ last.op = "pop"
    /\ Returned
    /\ InCol(last.ret.row, last.ret.column)
    /\ DOMAIN entries # {}

C18_SingleCellStep ==
    /\ last'.op \in {"pop", "pop_from_row", "pop_from_column", "remove"} =>
          /\ DOMAIN entries' \subseteq DOMAIN entries
          /\ Cardinality((DOMAIN entries) \ DOMAIN entries') <= 1
          /\ \A k \in DOMAIN entries' : entries'[k] = entries[k]
    /\ \A k \in (DOMAIN entries) \cap DOMAIN entries' :
          entries'[k] # entries[k] =>
              last'.op = "insert" /\ k = <<last'.row, last'.col>>

\* C18: pop, pop_from_row, pop_from_column and remove each take at most one
\* key out of `entries` and leave every other key of `entries` with its
\* weight; the weight of a key in `entries` changes only by an insert of
\* that key.
C18_SingleCell == [][C18_SingleCellStep]_vars

\* A scoped pop returned an entry of a row that still has a live entry.
C18_Witness ==
    /\ last.op = "pop_from_row"
    /\ Returned
    /\ ~Live(last.ret.row, last.ret.column)
    /\ LiveInRow(last.row) # {}

====
